---- MODULE Spec2Model ----
(***************************************************************************)
(* The mouth ribbon rigger (src/RibbonCode_v015.py; src/auto_lip_rigger.py *)
(* is the same program without comments) as a state machine.               *)
(*                                                                         *)
(* State: the fields of the ribbon_lip_rigger dialog, its widgets, and the *)
(* part of the host scene the tool builds (nodes with name, parent,        *)
(* visibility and attributes; constraints; the skin cluster).              *)
(* One action per handler the dialog connects (layout, lines 630-639),     *)
(* plus the user's selecting of components in the viewport.                *)
(*                                                                         *)
(* Conventions                                                             *)
(*  - a name is the sequence of its characters, so that the f-strings,     *)
(*    str(), index(), find() and the ls() wildcards are computed and not   *)
(*    assumed; a reference to a scene node is the node's name; None (the   *)
(*    empty name) stands for the constructor's 0 and for an attribute not  *)
(*    yet set;                                                             *)
(*  - a float is the exact rational <<numerator, denominator>> in lowest   *)
(*    terms (rounding is not modelled);                                    *)
(*  - what the host computes from geometry (surface spans, the sampled     *)
(*    normal, the bounding box, the closest-point parameters, the curve    *)
(*    distance) is an input of the handler, drawn from a small set;        *)
(*  - a handler run that raises is not a step: Confirm needs two captured  *)
(*    edge loops and a captured vertex, Finish needs the two curves, a     *)
(*    slider change to v >= 1 needs the lofted surface;                    *)
(*  - one rig per session: Confirm runs while the names it asks for are    *)
(*    free (the host renames a node whose name is taken, which is outside  *)
(*    the source), and the viewport selection is followed until Confirm,   *)
(*    after which no handler reads a captured value again.                 *)
(***************************************************************************)
EXTENDS Integers, Sequences, FiniteSets, TLC

\* ----------------------------------------------------------------- bounds
\* Longest edge loop the user can select (edges e1 .. eMaxLoopLen).
MaxLoopLen == 2
MaxCount == 4

\* ------------------------------------------------------------------ names
None == <<>>

Digit(d) ==
    CASE d = 0 -> "0" [] d = 1 -> "1" [] d = 2 -> "2" [] d = 3 -> "3"
      [] d = 4 -> "4" [] d = 5 -> "5" [] d = 6 -> "6" [] d = 7 -> "7"
      [] d = 8 -> "8" [] d = 9 -> "9"

RECURSIVE str(_)
\* Python str() of a non-negative int.
str(n) == IF n < 10 THEN <<Digit(n)>> ELSE str(n \div 10) \o <<Digit(n % 10)>>

\* Python s.find(sub): index (from 0) of the first occurrence, or -1.
find(s, sub) ==
    LET hits == {k \in 0..(Len(s) - Len(sub)) :
                    SubSeq(s, k + 1, k + Len(sub)) = sub}
    IN IF hits = {} THEN -1 ELSE CHOOSE k \in hits : \A j \in hits : k <= j

\* A host name pattern with a single wildcard, pre*suf, matched on a name.
ls_match(pre, suf, name) ==
    /\ Len(name) >= Len(pre) + Len(suf)
    /\ SubSeq(name, 1, Len(pre)) = pre
    /\ SubSeq(name, Len(name) - Len(suf) + 1, Len(name)) = suf

Lip == <<"L", "i", "p">>
s_deformer_grp == <<"_","d","e","f","o","r","m","e","r","_","g","r","p">>
s_follicle_grp == <<"_","f","o","l","l","i","c","l","e","_","g","r","p">>
s_binding_joints_grp ==
    <<"_","b","i","n","d","i","n","g","_","j","o","i","n","t","s","_","g","r","p">>
s_control_joints_grp ==
    <<"_","c","o","n","t","r","o","l","_","j","o","i","n","t","s","_","g","r","p">>
s_controller_grp ==
    <<"_","c","o","n","t","r","o","l","l","e","r","_","g","r","p">>
s_00 == <<"_","0","0">>
s_crv == <<"_","c","r","v">>
s_NURBSPlane == <<"_","0","0","1","_","N","U","R","B","S","P","l","a","n","e">>
s_rbn == <<"_","r","b","n","_">>
s_fol == <<"_","f","o","l">>
s_bnd_jnt == <<"_","b","n","d","_","j","n","t">>
s_ctrl_jnt == <<"_","c","t","r","l","_","j","n","t">>
s_ctrl == <<"_","c","t","r","l">>
s_jnt == <<"_","j","n","t">>
s_grp == <<"_","g","r","p">>
s_buffer_grp == <<"_","b","u","f","f","e","r","_","g","r","p">>
s_skinCluster == <<"_","s","k","i","n","C","l","u","s","t","e","r">>
s_us == <<"_">>

\* -------------------------------------------------------------- rationals
RECURSIVE GCD(_, _)
GCD(a, b) == IF b = 0 THEN a ELSE GCD(b, a % b)

Abs(x) == IF x < 0 THEN -x ELSE x

\* n/d in lowest terms with a positive denominator (d # 0).
Rat(n, d) ==
    LET g == GCD(Abs(n), Abs(d))
        s == IF d < 0 THEN -1 ELSE 1
    IN <<(s * n) \div g, (s * d) \div g>>

RatAdd(a, b) == Rat(a[1] * b[2] + b[1] * a[2], a[2] * b[2])
RatSub(a, b) == Rat(a[1] * b[2] - b[1] * a[2], a[2] * b[2])
RatMul(a, b) == Rat(a[1] * b[1], a[2] * b[2])
RatDiv(a, b) == Rat(a[1] * b[2], a[2] * b[1])
RatLess(a, b) == a[1] * b[2] < b[1] * a[2]
Int2Rat(n) == <<n, 1>>

\* ------------------------------------------------- constants of the dialog
\* Fields the constructor sets and no handler assigns.
v_value == <<1, 2>>
uValue_upper_corner == <<0, 1>>
uValue_lower_corner == <<1, 2>>
segments_between_corner_points == <<1, 4>>
\* Range of the slider.
SliderMinimum == 0
SliderMaximum == 10

\* ----------------------------------------------------- what the user sees
Edge(i) == <<"e">> \o str(i)
Vtx(i) == <<"v">> \o str(i)
IsEdge(c) == c[1] = "e"
IsVertex(c) == c[1] = "v"
EdgeLoop(k) == [i \in 1..k |-> Edge(i)]

\* The flattened viewport selections the user makes.
Selections ==
    {EdgeLoop(k) : k \in 1..MaxLoopLen} \cup {<<Vtx(1)>>, <<Vtx(2), Vtx(1)>>}

\* What the host computes from the geometry, per Confirm: the spansUV of
\* the loft, the dot product with the sampled normal, the distance of the
\* curves, the bounding box <<xmin, ymin, zmin, xmax, ymax, zmax>> and the
\* parameterU of the closest point to its right and to its left corner.
HostAnswer(spans, dot, sz, bbx, uR, uL) ==
    [spans |-> spans, dot |-> dot, sz |-> sz, bbx |-> bbx, uR |-> uR, uL |-> uL]

HostAnswers ==
    { HostAnswer(<<4, 1>>,  1, <<3, 2>>, <<-2, 1, 0, 2, 4, 3>>, <<3, 4>>, <<1, 4>>),
      HostAnswer(<<1, 4>>, -1, <<3, 2>>, <<-2, 1, 0, 2, 4, 3>>, <<1, 4>>, <<3, 4>>),
      HostAnswer(<<4, 4>>,  0, <<3, 2>>, <<-3, -2, -1, 3, 5, 1>>, <<7, 10>>, <<3, 10>>),
      HostAnswer(<<4, 1>>, -1, <<5, 1>>, <<-3, -2, -1, 3, 5, 1>>, <<1, 5>>, <<4, 5>>),
      HostAnswer(<<1, 4>>,  0, <<5, 1>>, <<-2, 1, 0, 2, 4, 3>>, <<3, 4>>, <<1, 4>>),
      HostAnswer(<<4, 4>>,  1, <<5, 1>>, <<-3, -2, -1, 3, 5, 1>>, <<3, 10>>, <<7, 10>>) }

\* ------------------------------------------------------------------ state
VARIABLES
    selection,                  \* the scene selection, flattened
    prefix_text,                \* QLineEdit "Prefix:"
    first_edge_Loop,            \* self.first_edge_Loop  (None: not set)
    second_edge_Loop,           \* self.second_edge_Loop (None: not set)
    vertex_on_edge,             \* self.vertex_on_edge   (None: 0)
    first_edge_loop_text,
    second_edge_loop_text,
    vertex_text,
    inbetween_joints_text,
    slider_value,               \* value of inbetween_joints_slider
    prefix,                     \* self.prefix
    size,                       \* self.size
    lofted_surface,             \* self.lofted_surface
    uValue_right_corner,
    uValue_left_corner,
    direction_counter_clockwise,
    deformer_grp, follicle_grp, binding_joint_grp,
    control_joint_grp, controller_grp,
    curve_1, curve_2,
    right_corner_joint, left_corner_joint,
    upper_corner_joint, lower_corner_joint,
    nodes,                      \* the DAG nodes of the scene the tool made
    constraints,                \* the constraints of the scene
    skinCluster,                \* joints bound to the lofted surface
    calls,                      \* host calls of the last Confirm, in order
    lookups,                    \* get_corner_point calls of the last Confirm
    host,                       \* what the host answered the last Confirm
    lastOp,                     \* the rig handler that completed last
    printed                     \* the last message a capture button printed

captureVars == <<selection, first_edge_Loop, second_edge_Loop, vertex_on_edge,
                 first_edge_loop_text, second_edge_loop_text, vertex_text>>
sliderVars == <<inbetween_joints_text, slider_value>>
rigVars == <<prefix, size, lofted_surface, uValue_right_corner,
             uValue_left_corner, direction_counter_clockwise, deformer_grp,
             follicle_grp, binding_joint_grp, curve_1, curve_2,
             right_corner_joint, left_corner_joint, upper_corner_joint,
             lower_corner_joint, calls, lookups, host>>
sceneVars == <<nodes, constraints, skinCluster>>
vars == <<captureVars, sliderVars, rigVars, sceneVars, prefix_text,
          control_joint_grp, controller_grp, lastOp, printed>>

\* ------------------------------------------------------------- the scene
NoRat == <<>>

\* A freshly created DAG node: at the world root, visible.
Node(name, type) ==
    [name |-> name, type |-> type, parent |-> None, v |-> TRUE,
     u |-> NoRat, pv |-> NoRat, radius |-> NoRat, ops |-> <<>>, locked |-> {},
     color |-> 0, rot |-> FALSE]

objExists(ns, ref) == \E n \in ns : n.name = ref
NodeOf(ns, ref) == CHOOSE n \in ns : n.name = ref
Children(ns, ref) == {n \in ns : n.parent = ref}

\* pm.parent(child, par)
parent(ns, child, par) ==
    {IF n.name = child THEN [n EXCEPT !.parent = par] ELSE n : n \in ns}

\* node.v.set(b)
setVisible(ns, ref, b) ==
    {IF n.name = ref THEN [n EXCEPT !.v = b] ELSE n : n \in ns}

\* An operation the host applies to a node's geometry, kept in order.
applyOp(ns, ref, op) ==
    {IF n.name = ref THEN [n EXCEPT !.ops = Append(@, op)] ELSE n : n \in ns}

RECURSIVE Below(_, _)
\* The names in S and of every node below one of them.
Below(ns, S) ==
    LET T == S \cup {n.name : n \in {m \in ns : m.parent \in S}}
    IN IF T = S THEN S ELSE Below(ns, T)

\* pm.delete(ref): the node goes with everything below it ...
deleteNodes(ns, ref) ==
    LET gone == Below(ns, {ref}) IN {n \in ns : n.name \notin gone}
\* ... and with the constraints that hang on a deleted node.
deleteConstraints(ns, cs, ref) ==
    LET gone == Below(ns, {ref})
    IN {c \in cs : c.driver \notin gone /\ c.driven \notin gone}

\* print("Please select an edge loop") / print("Please select the vertex")
NothingPrinted == ""
PleaseSelectEdgeLoop == "Please select an edge loop"
PleaseSelectVertex == "Please select the vertex"

Init ==
    /\ selection = <<>>
    /\ prefix_text = Lip
    /\ first_edge_Loop = None
    /\ second_edge_Loop = None
    /\ vertex_on_edge = None
    /\ first_edge_loop_text = <<>>
    /\ second_edge_loop_text = <<>>
    /\ vertex_text = <<>>
    /\ inbetween_joints_text = <<"0">>
    /\ slider_value = 0
    /\ prefix = <<>>
    /\ size = <<0, 1>>
    /\ lofted_surface = None
    /\ uValue_right_corner = <<3, 4>>
    /\ uValue_left_corner = <<1, 4>>
    /\ direction_counter_clockwise = FALSE
    /\ deformer_grp = None
    /\ follicle_grp = None
    /\ binding_joint_grp = None
    /\ control_joint_grp = None
    /\ controller_grp = None
    /\ curve_1 = None
    /\ curve_2 = None
    /\ right_corner_joint = None
    /\ left_corner_joint = None
    /\ upper_corner_joint = None
    /\ lower_corner_joint = None
    /\ nodes = {}
    /\ constraints = {}
    /\ skinCluster = {}
    /\ calls = <<>>
    /\ lookups = <<>>
    /\ host = HostAnswer(<<0, 0>>, 0, <<0, 1>>, <<0, 0, 0, 0, 0, 0>>,
                         <<0, 1>>, <<0, 1>>)
    /\ lastOp = "init"
    /\ printed = NothingPrinted

\* ------------------------------------------------------- capture handlers
\* The user changes the selection in the viewport.
Select ==
    /\ lofted_surface = None
    /\ \E s \in Selections \cup {<<>>} :
          /\ s # selection
          /\ selection' = s
    /\ UNCHANGED <<first_edge_Loop, second_edge_Loop, vertex_on_edge,
                   first_edge_loop_text, second_edge_loop_text, vertex_text,
                   sliderVars, rigVars, sceneVars, prefix_text,
                   control_joint_grp, controller_grp, lastOp, printed>>

RECURSIVE JoinNames(_)
\* name = ""; for selObj in loop: name += selObj.name()
JoinNames(loop) ==
    IF loop = <<>> THEN <<>> ELSE Head(loop) \o JoinNames(Tail(loop))

get_first_edge_loop ==
    /\ IF selection # <<>>
         THEN /\ first_edge_Loop' = selection
              /\ first_edge_loop_text' = JoinNames(selection)
              /\ selection' = <<>>
              /\ UNCHANGED printed
         ELSE /\ printed' = PleaseSelectEdgeLoop
              /\ UNCHANGED <<first_edge_Loop, first_edge_loop_text, selection>>
    /\ UNCHANGED <<second_edge_Loop, vertex_on_edge, second_edge_loop_text,
                   vertex_text, sliderVars, rigVars, sceneVars, prefix_text,
                   control_joint_grp, controller_grp, lastOp>>

get_2nd_edge_loop ==
    /\ IF selection # <<>>
         THEN /\ second_edge_Loop' = selection
              /\ second_edge_loop_text' = JoinNames(selection)
              /\ selection' = <<>>
              /\ UNCHANGED printed
         ELSE /\ printed' = PleaseSelectEdgeLoop
              /\ UNCHANGED <<second_edge_Loop, second_edge_loop_text, selection>>
    /\ UNCHANGED <<first_edge_Loop, vertex_on_edge, first_edge_loop_text,
                   vertex_text, sliderVars, rigVars, sceneVars, prefix_text,
                   control_joint_grp, controller_grp, lastOp>>

\* Mutant: the vertex button keeps the whole selection and leaves it selected.
get_vertex_on_edge_loop_whole_selection ==
    /\ IF selection # <<>>
         THEN /\ vertex_on_edge' = selection
              /\ vertex_text' = JoinNames(selection)
              /\ UNCHANGED <<selection, printed>>
         ELSE /\ printed' = PleaseSelectVertex
              /\ UNCHANGED <<vertex_on_edge, vertex_text, selection>>
    /\ UNCHANGED <<first_edge_Loop, second_edge_Loop, first_edge_loop_text,
                   second_edge_loop_text, sliderVars, rigVars, sceneVars,
                   prefix_text, control_joint_grp, controller_grp, lastOp>>

get_vertex_on_edge_loop ==
    /\ IF selection # <<>>
         THEN /\ vertex_on_edge' = selection[1]
              /\ vertex_text' = selection[1]
              /\ selection' = <<>>
              /\ UNCHANGED printed
         ELSE /\ printed' = PleaseSelectVertex
              /\ UNCHANGED <<vertex_on_edge, vertex_text, selection>>
    /\ UNCHANGED <<first_edge_Loop, second_edge_Loop, first_edge_loop_text,
                   second_edge_loop_text, sliderVars, rigVars, sceneVars,
                   prefix_text, control_joint_grp, controller_grp, lastOp>>

\* ------------------------------------------------------ the host, stepwise
\* While a handler runs, h = [ns, cs, calls] is the scene it has built so
\* far (nodes, constraints) and the host calls it has made, in order.
Call(h, op, arg) == [h EXCEPT !.calls = Append(@, [op |-> op, arg |-> arg])]

\* pm.group(name = ..., empty = True)
group(h, name) ==
    Call([h EXCEPT !.ns = @ \cup {Node(name, "transform")}], "group", name)

\* Mutant: the call is logged but the node stays where it is.
parentStep_forgotten(h, child, par) == Call(h, "parent", child)

\* pm.parent(child, par), as a step
parentStep(h, child, par) ==
    Call([h EXCEPT !.ns = parent(@, child, par)], "parent", child)

\* Mutant: the call is logged but the attribute is not set.
setVisibleStep_skipped(h, ref, b) == Call(h, "setVisible", ref)

\* node.v.set(b), as a step
setVisibleStep(h, ref, b) ==
    Call([h EXCEPT !.ns = setVisible(@, ref, b)], "setVisible", ref)

CurveName(pre, numCurve) == pre \o s_00 \o str(numCurve) \o s_crv

get_edge_curve(h, selectedEdge, pre, numCurve) ==
    Call([h EXCEPT !.ns = @ \cup {Node(CurveName(pre, numCurve), "nurbsCurve")}],
         "get_edge_curve", CurveName(pre, numCurve))

\* pm.polyEvaluate(edgeComponent = True) on the selected components
get_edge_count(selectedEdge) ==
    Cardinality({i \in DOMAIN selectedEdge : IsEdge(selectedEdge[i])})

move_Seam(h, crv) ==
    Call([h EXCEPT !.ns = applyOp(@, crv, "MoveCurveSeam")], "move_Seam", crv)

SurfaceName(pre) == pre \o s_NURBSPlane

\* Mutant: a dot product of 0 reverses the surface too.
get_lofted_surface_nonpositive(h, crvSeam_1, crvSeam_2, vertex, pre, spans, dot) ==
    LET surf == SurfaceName(pre)
        h1 == move_Seam(h, crvSeam_1)
        h2 == move_Seam(h1, crvSeam_2)
        h3 == Call([h2 EXCEPT !.ns = @ \cup {Node(surf, "nurbsSurface")}],
                   "loft", surf)
        h4 == IF spans[1] < spans[2]
                THEN Call([h3 EXCEPT !.ns = applyOp(@, surf, "reverseSurfaceNormals")],
                          "reverseSurfaceNormals", surf)
                ELSE h3
        h5 == IF dot <= 0
                THEN Call([h4 EXCEPT !.ns = applyOp(@, surf, "reverseSurface")],
                          "reverseSurface", surf)
                ELSE h4
    IN h5

\* Mutant: the second curve's seam is moved only for a reversed surface.
get_lofted_surface_seam_by_input(h, crvSeam_1, crvSeam_2, vertex, pre, spans, dot) ==
    LET surf == SurfaceName(pre)
        h1 == move_Seam(h, crvSeam_1)
        h2 == IF dot < 0 THEN move_Seam(h1, crvSeam_2) ELSE h1
        h3 == Call([h2 EXCEPT !.ns = @ \cup {Node(surf, "nurbsSurface")}],
                   "loft", surf)
        h4 == IF spans[1] < spans[2]
                THEN Call([h3 EXCEPT !.ns = applyOp(@, surf, "reverseSurfaceNormals")],
                          "reverseSurfaceNormals", surf)
                ELSE h3
        h5 == IF dot < 0
                THEN Call([h4 EXCEPT !.ns = applyOp(@, surf, "reverseSurface")],
                          "reverseSurface", surf)
                ELSE h4
    IN h5

\* spans = spansUV of the loft, dot = [0,0,1] . sampled normal (host inputs)
get_lofted_surface(h, crvSeam_1, crvSeam_2, vertex, pre, spans, dot) ==
    LET surf == SurfaceName(pre)
        h1 == move_Seam(h, crvSeam_1)
        h2 == move_Seam(h1, crvSeam_2)
        h3 == Call([h2 EXCEPT !.ns = @ \cup {Node(surf, "nurbsSurface")}],
                   "loft", surf)
        h4 == IF spans[1] < spans[2]
                THEN Call([h3 EXCEPT !.ns = applyOp(@, surf, "reverseSurfaceNormals")],
                          "reverseSurfaceNormals", surf)
                ELSE h3
        h5 == IF dot < 0
                THEN Call([h4 EXCEPT !.ns = applyOp(@, surf, "reverseSurface")],
                          "reverseSurface", surf)
                ELSE h4
    IN h5

FollicleName(pre, k) == pre \o s_rbn \o str(k) \o s_fol
BindJointName(pre, k) == pre \o s_us \o str(k) \o s_bnd_jnt

Constraint(kind, driver, driven, skipRotate, w) ==
    [kind |-> kind, driver |-> driver, driven |-> driven,
     skipRotate |-> skipRotate, w |-> w]

\* Mutant: every joint is constrained to the first follicle.
create_surface_ribbons_first_follicle(h, surface, pre, fol_grp, bnd_grp, u_count, sz) ==
    LET fols == {[Node(FollicleName(pre, i + 1), "follicle") EXCEPT
                     !.parent = fol_grp,
                     !.u = RatMul(RatDiv(<<1, 1>>, Int2Rat(u_count)), Int2Rat(i)),
                     !.pv = <<1, 2>>] : i \in 0..(u_count - 1)}
        jnts == {[Node(BindJointName(pre, i + 1), "joint") EXCEPT
                     !.parent = bnd_grp,
                     !.radius = RatDiv(sz, <<3, 1>>)] : i \in 0..(u_count - 1)}
        cons == UNION {{Constraint("parent", FollicleName(pre, 1),
                                   BindJointName(pre, i + 1), TRUE, <<1, 1>>),
                        Constraint("orient", FollicleName(pre, 1),
                                   BindJointName(pre, i + 1), FALSE, <<1, 1>>)}
                       : i \in 0..(u_count - 1)}
    IN Call([h EXCEPT !.ns = @ \cup fols \cup jnts, !.cs = @ \cup cons],
            "create_surface_ribbons", surface)

\* Mutant: parameterU is counted from the follicle's number, not from i.
create_surface_ribbons_from_one(h, surface, pre, fol_grp, bnd_grp, u_count, sz) ==
    LET fols == {[Node(FollicleName(pre, i + 1), "follicle") EXCEPT
                     !.parent = fol_grp,
                     !.u = RatMul(RatDiv(<<1, 1>>, Int2Rat(u_count)), Int2Rat(i + 1)),
                     !.pv = <<1, 2>>] : i \in 0..(u_count - 1)}
        jnts == {[Node(BindJointName(pre, i + 1), "joint") EXCEPT
                     !.parent = bnd_grp,
                     !.radius = RatDiv(sz, <<3, 1>>)] : i \in 0..(u_count - 1)}
        cons == UNION {{Constraint("parent", FollicleName(pre, i + 1),
                                   BindJointName(pre, i + 1), TRUE, <<1, 1>>),
                        Constraint("orient", FollicleName(pre, i + 1),
                                   BindJointName(pre, i + 1), FALSE, <<1, 1>>)}
                       : i \in 0..(u_count - 1)}
    IN Call([h EXCEPT !.ns = @ \cup fols \cup jnts, !.cs = @ \cup cons],
            "create_surface_ribbons", surface)

\* for i in range(u_count): one follicle, one joint, two constraints
create_surface_ribbons(h, surface, pre, fol_grp, bnd_grp, u_count, sz) ==
    LET fols == {[Node(FollicleName(pre, i + 1), "follicle") EXCEPT
                     !.parent = fol_grp,
                     !.u = RatMul(RatDiv(<<1, 1>>, Int2Rat(u_count)), Int2Rat(i)),
                     !.pv = <<1, 2>>] : i \in 0..(u_count - 1)}
        jnts == {[Node(BindJointName(pre, i + 1), "joint") EXCEPT
                     !.parent = bnd_grp,
                     !.radius = RatDiv(sz, <<3, 1>>)] : i \in 0..(u_count - 1)}
        cons == UNION {{Constraint("parent", FollicleName(pre, i + 1),
                                   BindJointName(pre, i + 1), TRUE, <<1, 1>>),
                        Constraint("orient", FollicleName(pre, i + 1),
                                   BindJointName(pre, i + 1), FALSE, <<1, 1>>)}
                       : i \in 0..(u_count - 1)}
    IN Call([h EXCEPT !.ns = @ \cup fols \cup jnts, !.cs = @ \cup cons],
            "create_surface_ribbons", surface)

\* The closestPointOnSurface node get_corner_point makes: its inPosition
\* and the parameterU the host reports for it.
closestPointOnSurface(valueX, valueY, valueZ, u) ==
    [x |-> valueX, y |-> valueY, z |-> valueZ, u |-> u]

\* u: the parameterU the host's closestPointOnSurface node reports
get_corner_point(h, valueX, valueY, valueZ, surface, u) ==
    Call(h, "get_corner_point", surface)

ControlJointName(pre) == pre \o s_ctrl_jnt

\* The joint set_control_joints makes at the follicle's place.
temp_joint(u_value, v, pre, sz) ==
    [Node(ControlJointName(pre), "joint") EXCEPT
        !.u = u_value, !.pv = v, !.radius = RatDiv(sz, <<2, 1>>)]

set_control_joints(h, u_value, v, surface, pre, sz) ==
    Call([h EXCEPT !.ns = @ \cup {temp_joint(u_value, v, pre, sz)}],
         "set_control_joints", ControlJointName(pre))

get_reference_size(h, crv_1, crv_2) == Call(h, "get_reference_size", crv_1)

\* ---------------------------------------------------------------- Confirm
\* bbx = <<xmin, ymin, zmin, xmax, ymax, zmax>> (bbx[0..5] in the source)
\* bbx_yAverage = (bbx[4] - bbx[1]) / 2
bbx_yAverage(bbx) == RatDiv(Int2Rat(bbx[5] - bbx[2]), <<2, 1>>)

\* Mutant: the half height is taken for the middle, the minimum is not added.
bbx_yResult_half_height(bbx) == bbx_yAverage(bbx)

\* bbx_yResult = bbx[1] + bbx_yAverage
bbx_yResult(bbx) == RatAdd(Int2Rat(bbx[2]), bbx_yAverage(bbx))

\* The computed corner values and what Confirm keeps of them.
DirectionIsCounterClockwise(uR, uL) == RatLess(uR, uL)
KeptRight(uR, uL) == IF DirectionIsCounterClockwise(uR, uL) THEN <<1, 4>> ELSE uR
KeptLeft(uR, uL) == IF DirectionIsCounterClockwise(uR, uL) THEN <<3, 4>> ELSE uL

s_R == <<"_", "R">>
s_L == <<"_", "L">>
s_U == <<"_", "U">>
s_D == <<"_", "D">>

\* The scene and the call log user_input leaves, for the host's answers
\* spans, dot, sz (curve distance), bbx, uR and uL (corner parameters).
user_input_run(spans, dot, sz, bbx, uR, uL) ==
    LET pre == prefix_text
        dg == pre \o s_deformer_grp
        fg == pre \o s_follicle_grp
        bg == pre \o s_binding_joints_grp
        c1 == CurveName(pre, 1)
        c2 == CurveName(pre, 2)
        surf == SurfaceName(pre)
        h0 == [ns |-> nodes, cs |-> constraints, calls |-> <<>>]
        h1 == group(h0, dg)
        h2 == get_edge_curve(h1, first_edge_Loop, pre, 1)
        h3 == get_edge_curve(h2, second_edge_Loop, pre, 2)
        h4 == parentStep(h3, c1, dg)
        h5 == parentStep(h4, c2, dg)
        u_count == get_edge_count(first_edge_Loop)
        h6 == Call(h5, "get_edge_count", <<>>)
        h7 == get_reference_size(h6, c1, c2)
        h8 == get_lofted_surface(h7, c1, c2, vertex_on_edge, pre, spans, dot)
        h9 == parentStep(h8, surf, dg)
        h10 == group(h9, fg)
        h11 == parentStep(h10, fg, dg)
        h12 == group(h11, bg)
        h13 == create_surface_ribbons(h12, surf, pre, fg, bg, u_count, sz)
        h14 == setVisibleStep(h13, dg, FALSE)
        h15 == setVisibleStep(h14, bg, FALSE)
        h16 == Call(h15, "exactWorldBoundingBox", surf)
        yResult == bbx_yResult(bbx)
        h17 == get_corner_point(h16, bbx[1], yResult, bbx[3], surf, uR)
        h18 == get_corner_point(h17, bbx[4], yResult, bbx[3], surf, uL)
        h19 == set_control_joints(h18, KeptRight(uR, uL), v_value, surf,
                                  pre \o s_R, sz)
        h20 == set_control_joints(h19, KeptLeft(uR, uL), v_value, surf,
                                  pre \o s_L, sz)
        h21 == set_control_joints(h20, uValue_upper_corner, v_value, surf,
                                  pre \o s_U, sz)
        h22 == set_control_joints(h21, uValue_lower_corner, v_value, surf,
                                  pre \o s_D, sz)
    IN [h |-> h22,
        lookups |-> <<closestPointOnSurface(bbx[1], yResult, bbx[3], uR),
                      closestPointOnSurface(bbx[4], yResult, bbx[3], uL)>>]

user_input ==
    \* get_edge_curve and pointPosition raise on anything else
    /\ first_edge_Loop # None
    /\ \A i \in DOMAIN first_edge_Loop : IsEdge(first_edge_Loop[i])
    /\ second_edge_Loop # None
    /\ \A i \in DOMAIN second_edge_Loop : IsEdge(second_edge_Loop[i])
    /\ vertex_on_edge # None
    /\ IsVertex(vertex_on_edge)
    \* the names asked for are free
    /\ ~objExists(nodes, prefix_text \o s_deformer_grp)
    /\ \E a \in HostAnswers :
          LET r == user_input_run(a.spans, a.dot, a.sz, a.bbx, a.uR, a.uL)
              pre == prefix_text
              sz == a.sz
              uR == a.uR
              uL == a.uL
          IN /\ prefix' = pre
             /\ deformer_grp' = pre \o s_deformer_grp
             /\ curve_1' = CurveName(pre, 1)
             /\ curve_2' = CurveName(pre, 2)
             /\ size' = sz
             /\ lofted_surface' = SurfaceName(pre)
             /\ follicle_grp' = pre \o s_follicle_grp
             /\ binding_joint_grp' = pre \o s_binding_joints_grp
             /\ uValue_right_corner' = KeptRight(uR, uL)
             /\ uValue_left_corner' = KeptLeft(uR, uL)
             /\ direction_counter_clockwise' =
                   IF DirectionIsCounterClockwise(uR, uL)
                     THEN TRUE ELSE direction_counter_clockwise
             /\ right_corner_joint' = ControlJointName(pre \o s_R)
             /\ left_corner_joint' = ControlJointName(pre \o s_L)
             /\ upper_corner_joint' = ControlJointName(pre \o s_U)
             /\ lower_corner_joint' = ControlJointName(pre \o s_D)
             /\ nodes' = r.h.ns
             /\ constraints' = r.h.cs
             /\ calls' = r.h.calls
             /\ lookups' = r.lookups
             /\ host' = a
    /\ selection' = <<>>
    /\ lastOp' = "user_input"
    /\ UNCHANGED <<first_edge_Loop, second_edge_Loop, vertex_on_edge,
                   first_edge_loop_text, second_edge_loop_text, vertex_text,
                   sliderVars, skinCluster, prefix_text, control_joint_grp,
                   controller_grp, printed>>

\* ------------------------------------------------------------- the slider
s_comma == <<",">>
s_RU == <<"_", "R", "U", "_">>
s_RD == <<"_", "R", "D", "_">>
s_LU == <<"_", "L", "U", "_">>
s_LD == <<"_", "L", "D", "_">>

\* (self.segments_between_corner_points / (slider_value + 1)) * i
segment_offset(n, i) ==
    RatMul(RatDiv(segments_between_corner_points, Int2Rat(n + 1)), Int2Rat(i))

u_value_upper_right(ccw, uR, n, i) ==
    IF ccw THEN RatSub(uR, segment_offset(n, i))
           ELSE RatAdd(uR, segment_offset(n, i))
u_value_lower_right(ccw, uR, n, i) ==
    IF ccw THEN RatAdd(uR, segment_offset(n, i))
           ELSE RatSub(uR, segment_offset(n, i))
u_value_upper_left(ccw, uL, n, i) ==
    IF ccw THEN RatAdd(uL, segment_offset(n, i))
           ELSE RatSub(uL, segment_offset(n, i))
u_value_lower_left(ccw, uL, n, i) ==
    IF ccw THEN RatSub(uL, segment_offset(n, i))
           ELSE RatAdd(uL, segment_offset(n, i))

\* The prefix segment_joints hands to set_control_joints for a joint of
\* segment seg ("_RU_", ...) and step i.
SegmentPrefix(pre, seg, i) == s_comma \o pre \o seg \o str(i)

ControlGroupName(pre) == pre \o s_control_joints_grp

\* One pass of the loop body, for step i of n: the four joints, each put
\* into the group grp.
segment_step(grp, n, i) ==
    LET ccw == direction_counter_clockwise
        segmentJoint_upper_right ==
            temp_joint(u_value_upper_right(ccw, uValue_right_corner, n, i),
                       v_value, SegmentPrefix(prefix, s_RU, i), size)
        segmentJoint_lower_right ==
            temp_joint(u_value_lower_right(ccw, uValue_right_corner, n, i),
                       v_value, SegmentPrefix(prefix, s_RD, i), size)
        segmentJoinz_upper_left ==
            temp_joint(u_value_upper_left(ccw, uValue_left_corner, n, i),
                       v_value, SegmentPrefix(prefix, s_LU, i), size)
        segmentJoint_lower_left ==
            temp_joint(u_value_lower_left(ccw, uValue_left_corner, n, i),
                       v_value, SegmentPrefix(prefix, s_LD, i), size)
    IN {[j EXCEPT !.parent = grp] :
          j \in {segmentJoint_upper_right, segmentJoint_lower_right,
                 segmentJoinz_upper_left, segmentJoint_lower_left}}

\* Mutant: the old group of in-between joints is kept.
segment_joints_nodes_kept(value) ==
    LET grp == ControlGroupName(prefix)
    IN nodes \cup {Node(grp, "transform")}
             \cup UNION {segment_step(grp, value, i) : i \in 1..value}

\* The scene after segment_joints(value): the old group of in-between
\* joints deleted when it exists, a new one built, one pass per step.
segment_joints_nodes(value) ==
    LET kept == IF objExists(nodes, control_joint_grp)
                  THEN deleteNodes(nodes, control_joint_grp) ELSE nodes
        grp == ControlGroupName(prefix)
    IN kept \cup {Node(grp, "transform")}
            \cup UNION {segment_step(grp, value, i) : i \in 1..value}

segment_joints_constraints ==
    IF objExists(nodes, control_joint_grp)
      THEN deleteConstraints(nodes, constraints, control_joint_grp)
      ELSE constraints

segment_joints ==
    \E value \in SliderMinimum..SliderMaximum :
       /\ value # slider_value                 \* valueChanged
       \* set_control_joints raises without a surface
       /\ value >= 1 => lofted_surface # None
       /\ slider_value' = value
       /\ inbetween_joints_text' = str(value)
       /\ nodes' = segment_joints_nodes(value)
       /\ constraints' = segment_joints_constraints
       /\ skinCluster' = IF objExists(nodes, control_joint_grp)
                           THEN skinCluster \ Below(nodes, {control_joint_grp})
                           ELSE skinCluster
       /\ control_joint_grp' = ControlGroupName(prefix)
       /\ selection' = IF value >= 1 THEN <<>> ELSE selection
       /\ lastOp' = "segment_joints"
       /\ UNCHANGED <<first_edge_Loop, second_edge_Loop, vertex_on_edge,
                      first_edge_loop_text, second_edge_loop_text, vertex_text,
                      rigVars, prefix_text, controller_grp, printed>>

\* ----------------------------------------------------------------- Finish
\* The name of the controller of a joint: the part before "_jnt".
controller_prefix(jointName) == SubSeq(jointName, 1, find(jointName, s_jnt))

\* What create_controller adds for one joint (a node of ns): the group,
\* the buffer group and the circle, and the constraint on the joint.
create_controller(jn, main_controller_grp, sz) ==
    LET jointName == jn.name
        cp == controller_prefix(jointName)
        side == find(jointName, <<"_","L","_">>) # -1
                  \/ find(jointName, <<"_","R","_">>) # -1
        main == find(jointName, <<"_","D","_">>) # -1
                  \/ find(jointName, <<"_","L","_">>) # -1
                  \/ find(jointName, <<"_","U","_">>) # -1
                  \/ find(jointName, <<"_","R","_">>) # -1
        ctrl_grp == [Node(cp \o s_grp, "transform") EXCEPT
                        !.u = jn.u, !.pv = jn.pv,
                        !.rot = ~side,
                        !.parent = main_controller_grp]
        ctrl_buffer_grp == [Node(cp \o s_buffer_grp, "transform") EXCEPT
                               !.parent = cp \o s_grp]
        controller == [Node(cp, "circle") EXCEPT
                          !.parent = cp \o s_buffer_grp,
                          !.radius = RatDiv(sz, <<4, 1>>),
                          !.locked = {"sx", "sy", "sz", "v"},
                          !.color = IF main THEN 17 ELSE 13,
                          !.ops = <<"move">>]
    IN [ns |-> {ctrl_grp, ctrl_buffer_grp, controller},
        cs |-> {Constraint("parent", cp, jointName, FALSE, <<1, 1>>)}]

RECURSIVE SetToSeq(_)
SetToSeq(S) ==
    IF S = {} THEN <<>>
    ELSE LET x == CHOOSE y \in S : TRUE IN <<x>> \o SetToSeq(S \ {x})

\* pm.ls(f"{contains}*_ctrl"): the names the pattern matches, as a list
\* (the order of the list only decides the weights).
controller_segment(ns, contains) ==
    SetToSeq({n.name : n \in {m \in ns : ls_match(contains, s_ctrl, m.name)}})

\* The constraints create_blend puts on the buffer groups of a segment.
create_blend(ns, side, middle, contains) ==
    LET seg == controller_segment(ns, contains)
        length == Len(seg)
        value(i) == RatMul(RatDiv(<<1, 1>>, Int2Rat(length + 1)), Int2Rat(i + 1))
    IN UNION {
          {Constraint("parent", sd, seg[i + 1] \o s_buffer_grp, FALSE,
                      RatSub(<<1, 1>>, value(i))) : sd \in side}
          \cup
          {Constraint("parent", md, seg[i + 1] \o s_buffer_grp, FALSE,
                      value(i)) : md \in middle}
          : i \in 0..(length - 1)}

\* pm.ls(name): the nodes of that exact name
ls_exact(ns, name) == {n.name : n \in {m \in ns : m.name = name}}

create_blend_for_segment_controller(ns, pre) ==
    LET controller_left == ls_exact(ns, pre \o s_L \o s_ctrl)
        controller_right == ls_exact(ns, pre \o s_R \o s_ctrl)
        controller_middle_up == ls_exact(ns, pre \o s_U \o s_ctrl)
        controller_middle_down == ls_exact(ns, pre \o s_D \o s_ctrl)
    IN create_blend(ns, controller_left, controller_middle_up, pre \o s_LU)
       \cup create_blend(ns, controller_left, controller_middle_down, pre \o s_LD)
       \cup create_blend(ns, controller_right, controller_middle_up, pre \o s_RU)
       \cup create_blend(ns, controller_right, controller_middle_down, pre \o s_RD)

\* Mutant: only the names that start with the prefix are listed.
selJoints_of_prefix(ns) == {m \in ns : ls_match(prefix, s_ctrl_jnt, m.name)}

\* pm.ls('*_ctrl_jnt', flatten = True, recursive = True)
selJoints(ns) == {m \in ns : ls_match(<<>>, s_ctrl_jnt, m.name)}

\* The group Finish puts the main joints into: the slider's, or a new one.
finish_control_group ==
    IF objExists(nodes, control_joint_grp)
      THEN control_joint_grp ELSE ControlGroupName(prefix)

\* The scene after finish_rig, step by step.
finish_rig_run ==
    LET n1 == deleteNodes(deleteNodes(nodes, curve_1), curve_2)
        cg == finish_control_group
        n2 == IF objExists(n1, control_joint_grp)
                THEN n1 ELSE n1 \cup {Node(cg, "transform")}
        n3 == parent(parent(parent(parent(n2, right_corner_joint, cg),
                                   left_corner_joint, cg),
                            upper_corner_joint, cg),
                     lower_corner_joint, cg)
        n4 == n3 \cup {Node(prefix \o s_controller_grp, "transform")}
        sel == selJoints(n4)
        made == {create_controller(j, prefix \o s_controller_grp, size) : j \in sel}
        n5 == n4 \cup UNION {m.ns : m \in made}
        c5 == constraints \cup UNION {m.cs : m \in made}
        c6 == c5 \cup create_blend_for_segment_controller(n5, prefix)
        n6 == setVisible(setVisible(n5, binding_joint_grp, TRUE), cg, FALSE)
    IN [ns |-> n6, cs |-> c6, skin |-> {j.name : j \in sel}]

finish_rig ==
    \* pm.delete raises on a curve that is not there
    /\ curve_1 # None /\ objExists(nodes, curve_1)
    /\ curve_2 # None /\ objExists(nodes, curve_2)
    /\ LET r == finish_rig_run
       IN /\ nodes' = r.ns
          /\ constraints' = r.cs
          /\ skinCluster' = r.skin
    /\ control_joint_grp' = finish_control_group
    /\ controller_grp' = prefix \o s_controller_grp
    /\ selection' = <<>>
    /\ lastOp' = "finish_rig"
    /\ UNCHANGED <<first_edge_Loop, second_edge_Loop, vertex_on_edge,
                   first_edge_loop_text, second_edge_loop_text, vertex_text,
                   sliderVars, rigVars, prefix_text, printed>>

Next ==
    \/ Select
    \/ get_first_edge_loop
    \/ get_2nd_edge_loop
    \/ get_vertex_on_edge_loop
    \/ user_input
    \/ segment_joints
    \/ finish_rig

Spec == Init /\ [][Next]_vars

\* ------------------------------------- create_surface_ribbons on its own
\* The function applied once to a surface and two empty groups, for every
\* edge count from 0 to MaxCount, a few prefixes and a few sizes.
Prefixes == {Lip, <<"M">>, <<"j","a","w">>}
Sizes == {<<1, 1>>, <<3, 2>>, <<5, 1>>, <<1, 4>>}

InitRibbons ==
    /\ selection = <<>>
    /\ prefix_text \in Prefixes
    /\ first_edge_Loop \in {EdgeLoop(k) : k \in 0..MaxCount}
    /\ second_edge_Loop = None
    /\ vertex_on_edge = None
    /\ first_edge_loop_text = JoinNames(first_edge_Loop)
    /\ second_edge_loop_text = <<>>
    /\ vertex_text = <<>>
    /\ inbetween_joints_text = <<"0">>
    /\ slider_value = 0
    /\ prefix = prefix_text
    /\ size \in Sizes
    /\ lofted_surface = SurfaceName(prefix_text)
    /\ uValue_right_corner = <<3, 4>>
    /\ uValue_left_corner = <<1, 4>>
    /\ direction_counter_clockwise = FALSE
    /\ deformer_grp = None
    /\ follicle_grp = prefix_text \o s_follicle_grp
    /\ binding_joint_grp = prefix_text \o s_binding_joints_grp
    /\ control_joint_grp = None
    /\ controller_grp = None
    /\ curve_1 = None
    /\ curve_2 = None
    /\ right_corner_joint = None
    /\ left_corner_joint = None
    /\ upper_corner_joint = None
    /\ lower_corner_joint = None
    /\ nodes = {Node(SurfaceName(prefix_text), "nurbsSurface"),
                Node(prefix_text \o s_follicle_grp, "transform"),
                Node(prefix_text \o s_binding_joints_grp, "transform")}
    /\ constraints = {}
    /\ skinCluster = {}
    /\ calls = <<>>
    /\ lookups = <<>>
    /\ host = HostAnswer(<<0, 0>>, 0, <<0, 1>>, <<0, 0, 0, 0, 0, 0>>,
                         <<0, 1>>, <<0, 1>>)
    /\ lastOp = "init"
    /\ printed = NothingPrinted

\* create_surface_ribbons(lofted_surface, prefix, follicle_grp,
\*                        binding_joint_grp, u_count, size), called once
call_create_surface_ribbons ==
    /\ lastOp = "init"
    /\ LET h == create_surface_ribbons(
                    [ns |-> nodes, cs |-> constraints, calls |-> <<>>],
                    lofted_surface, prefix, follicle_grp, binding_joint_grp,
                    get_edge_count(first_edge_Loop), size)
       IN /\ nodes' = h.ns
          /\ constraints' = h.cs
          /\ calls' = h.calls
    /\ lastOp' = "create_surface_ribbons"
    /\ UNCHANGED <<captureVars, sliderVars, prefix, size, lofted_surface,
                   uValue_right_corner, uValue_left_corner,
                   direction_counter_clockwise, deformer_grp, follicle_grp,
                   binding_joint_grp, curve_1, curve_2, right_corner_joint,
                   left_corner_joint, upper_corner_joint, lower_corner_joint,
                   lookups, host, skinCluster, prefix_text, control_joint_grp,
                   controller_grp, printed>>

NextRibbons == call_create_surface_ribbons

SpecRibbons == InitRibbons /\ [][NextRibbons]_vars


\* ----------------------------------------------------------------- claims
Confirmed == lofted_surface # None
Finished == controller_grp # None

s_R_ctrl_jnt == <<"_","R","_","c","t","r","l","_","j","n","t">>
s_L_ctrl_jnt == <<"_","L","_","c","t","r","l","_","j","n","t">>
s_U_ctrl_jnt == <<"_","U","_","c","t","r","l","_","j","n","t">>
s_D_ctrl_jnt == <<"_","D","_","c","t","r","l","_","j","n","t">>

\* The names of the four main control joints.
MainJointNames ==
    {prefix \o s_R_ctrl_jnt, prefix \o s_L_ctrl_jnt,
     prefix \o s_U_ctrl_jnt, prefix \o s_D_ctrl_jnt}

\* The control joints of the scene, by what they are called.
ControlJoints ==
    {n \in nodes : n.type = "joint" /\ Len(n.name) >= 9
                   /\ SubSeq(n.name, Len(n.name) - 8, Len(n.name)) = s_ctrl_jnt}
InBetweenJoints == {n \in ControlJoints : n.name \notin MainJointNames}

NamesOf(S) == {n.name : n \in S}
OfType(t) == {n \in nodes : n.type = t}
EdgesOfFirstLoop == Len(first_edge_Loop)

\* C1: a completed Confirm leaves a deformer group that contains the two
\* curves, the lofted surface and the follicle group, a separate group of
\* binding joints, one follicle and one binding joint per counted edge,
\* and exactly the four main control joints <prefix>_R_ctrl_jnt,
\* <prefix>_L_ctrl_jnt, <prefix>_U_ctrl_jnt and <prefix>_D_ctrl_jnt.
C1_ConfirmBuildsScene ==
    lastOp = "user_input" =>
       /\ prefix = prefix_text
       /\ deformer_grp = prefix \o s_deformer_grp
       /\ objExists(nodes, deformer_grp)
       /\ NodeOf(nodes, deformer_grp).parent = None
       /\ Cardinality(OfType("nurbsCurve")) = 2
       /\ NamesOf(OfType("nurbsCurve")) = {curve_1, curve_2}
       /\ NamesOf(OfType("nurbsSurface")) = {lofted_surface}
       /\ {curve_1, curve_2, lofted_surface, follicle_grp}
             \subseteq NamesOf(Children(nodes, deformer_grp))
       /\ objExists(nodes, binding_joint_grp)
       /\ binding_joint_grp # deformer_grp
       /\ NodeOf(nodes, binding_joint_grp).parent = None
       /\ Children(nodes, follicle_grp) = OfType("follicle")
       /\ Cardinality(Children(nodes, follicle_grp)) = EdgesOfFirstLoop
       /\ Cardinality(Children(nodes, binding_joint_grp)) = EdgesOfFirstLoop
       /\ \A n \in Children(nodes, binding_joint_grp) : n.type = "joint"
       /\ Cardinality(ControlJoints) = 4
       /\ NamesOf(ControlJoints) = MainJointNames

C1_Witness ==
    /\ lastOp = "user_input"
    /\ Len(first_edge_Loop) = 2
    /\ Len(second_edge_Loop) = 1
    /\ Cardinality(nodes) = 14

s_rbn_ == <<"_","r","b","n","_">>
FollicleOf(k) == prefix \o s_rbn_ \o str(k) \o <<"_","f","o","l">>
BindJointOf(k) == prefix \o <<"_">> \o str(k) \o <<"_","b","n","d","_","j","n","t">>

\* C2: Confirm creates as many follicles as binding joints, as many as the
\* first captured edge loop has edges, whatever the second loop is; binding
\* joint k is constrained to follicle k and to no other follicle, by a
\* parent constraint that skips the rotation and by an orient constraint.
C2_OnePairPerEdge ==
    Confirmed =>
       /\ Cardinality(OfType("follicle")) = EdgesOfFirstLoop
       /\ NamesOf(OfType("follicle")) = {FollicleOf(k) : k \in 1..EdgesOfFirstLoop}
       /\ NamesOf(Children(nodes, binding_joint_grp)) =
             {BindJointOf(k) : k \in 1..EdgesOfFirstLoop}
       /\ Cardinality(Children(nodes, binding_joint_grp)) = EdgesOfFirstLoop
       /\ \A k \in 1..EdgesOfFirstLoop :
             LET on == {c \in constraints : c.driven = BindJointOf(k)}
             IN /\ \A c \in on : c.driver = FollicleOf(k)
                /\ {<<c.kind, c.skipRotate>> : c \in on} =
                      {<<"parent", TRUE>>, <<"orient", FALSE>>}
                /\ Cardinality(on) = 2

C2_Witness ==
    /\ Confirmed
    /\ Len(first_edge_Loop) = 2
    /\ Len(second_edge_Loop) = 1
    /\ Cardinality(OfType("follicle")) = 2
    /\ Finished

\* C3: after a slider change that follows a Confirm, the group of control
\* joints holds exactly 4 x v in-between joints, v the value of the slider,
\* whatever the slider's values were before; no in-between joint of an
\* earlier value is left in the scene.
C3_SliderRebuildsGroup ==
    (lastOp = "segment_joints" /\ Confirmed) =>
       /\ control_joint_grp = prefix \o s_control_joints_grp
       /\ Cardinality({n \in nodes : n.name = control_joint_grp}) = 1
       /\ Cardinality(Children(nodes, control_joint_grp)) = 4 * slider_value
       /\ Children(nodes, control_joint_grp) = InBetweenJoints
       /\ Cardinality(NamesOf(InBetweenJoints)) = 4 * slider_value
       /\ inbetween_joints_text = str(slider_value)

C3_Witness ==
    /\ lastOp = "segment_joints"
    /\ Confirmed
    /\ Finished
    /\ slider_value = 3
    /\ Cardinality(OfType("circle")) = 4 + 4 * 7

\* The in-between joint of segment seg ("_RU_", ...) and step i, by name.
InBetweenName(seg, i) ==
    <<",">> \o prefix \o seg \o str(i) \o <<"_","c","t","r","l","_","j","n","t">>
InBetweenU(seg, i) == NodeOf(nodes, InBetweenName(seg, i)).u

StrictlyBetween(x, a, b) ==
    \/ RatLess(a, x) /\ RatLess(x, b)
    \/ RatLess(b, x) /\ RatLess(x, a)
\* The upper main joint sits at U = 0, which is U = 1 seen from above.
BetweenSideAndUpper(x, side) ==
    StrictlyBetween(x, side, <<0, 1>>) \/ StrictlyBetween(x, side, <<1, 1>>)
BetweenSideAndLower(x, side) == StrictlyBetween(x, side, <<1, 2>>)

\* C4: for slider value n and every step i in 1..n each of the four joints
\* of step i is placed at its side corner's U plus or minus i*(1/4)/(n+1),
\* and that U lies strictly between the U of its side main joint and the U
\* of its neighbouring middle main joint, whatever corner values Confirm
\* stored.
C4_InBetweenLiesBetween ==
    (lastOp = "segment_joints" /\ Confirmed) =>
       \A i \in 1..slider_value :
          LET off == Rat(i, 4 * (slider_value + 1))
              R == uValue_right_corner
              L == uValue_left_corner
          IN /\ InBetweenU(s_RU, i) \in {RatAdd(R, off), RatSub(R, off)}
             /\ InBetweenU(s_RD, i) \in {RatAdd(R, off), RatSub(R, off)}
             /\ InBetweenU(s_LU, i) \in {RatAdd(L, off), RatSub(L, off)}
             /\ InBetweenU(s_LD, i) \in {RatAdd(L, off), RatSub(L, off)}
             /\ BetweenSideAndUpper(InBetweenU(s_RU, i), R)
             /\ BetweenSideAndLower(InBetweenU(s_RD, i), R)
             /\ BetweenSideAndUpper(InBetweenU(s_LU, i), L)
             /\ BetweenSideAndLower(InBetweenU(s_LD, i), L)

MainControllerOf(side) == prefix \o <<"_">> \o side \o <<"_","c","t","r","l">>
InBetweenBufferOf(seg, i) ==
    <<",">> \o prefix \o seg \o str(i)
       \o <<"_","c","t","r","l","_","b","u","f","f","e","r","_","g","r","p">>
BlendDrivers(seg, i) ==
    {c.driver : c \in {d \in constraints :
                         d.kind = "parent" /\ d.driven = InBetweenBufferOf(seg, i)}}

\* C5: after Finish with slider value n >= 1 the buffer group of each of
\* the 4 x n in-between controllers carries two parent constraints, one to
\* the side and one to the middle main controller of its segment
\* (LU: L and U, LD: L and D, RU: R and U, RD: R and D).
C5_BlendConstrainsBuffers ==
    (lastOp = "finish_rig" /\ slider_value >= 1) =>
       \A i \in 1..slider_value :
          /\ BlendDrivers(s_LU, i) = {MainControllerOf(<<"L">>), MainControllerOf(<<"U">>)}
          /\ BlendDrivers(s_LD, i) = {MainControllerOf(<<"L">>), MainControllerOf(<<"D">>)}
          /\ BlendDrivers(s_RU, i) = {MainControllerOf(<<"R">>), MainControllerOf(<<"U">>)}
          /\ BlendDrivers(s_RD, i) = {MainControllerOf(<<"R">>), MainControllerOf(<<"D">>)}

\* The part of a control joint's name before the closing "_jnt".
BeforeJnt(name) == SubSeq(name, 1, Len(name) - 4)

\* C6: after Finish every control joint, the four main joints and all
\* current in-between joints, has exactly one controller; the controller
\* is named with the part of the joint name before "_jnt", sits in
\* <name>_grp > <name>_buffer_grp > <name> under the single
\* <prefix>_controller_grp, drives its joint through a parent constraint
\* and has scale X/Y/Z and visibility locked and non-keyable.
C6_OneControllerPerJoint ==
    lastOp = "finish_rig" =>
       /\ Cardinality(ControlJoints) = 4 + 4 * slider_value
       /\ MainJointNames \subseteq NamesOf(ControlJoints)
       /\ ControlJoints = Children(nodes, control_joint_grp)
       /\ Cardinality(OfType("circle")) = Cardinality(ControlJoints)
       /\ controller_grp = prefix \o <<"_","c","o","n","t","r","o","l","l","e","r","_","g","r","p">>
       /\ Cardinality({n \in nodes : n.name = controller_grp}) = 1
       /\ \A j \in ControlJoints :
             LET name == BeforeJnt(j.name)
                 on == {c \in constraints : c.driven = j.name}
             IN /\ Cardinality(on) = 1
                /\ \A c \in on : c.kind = "parent" /\ c.driver = name
                /\ Cardinality({n \in nodes : n.name = name}) = 1
                /\ LET ctl == NodeOf(nodes, name)
                   IN /\ ctl.type = "circle"
                      /\ ctl.parent = name \o <<"_","b","u","f","f","e","r","_","g","r","p">>
                      /\ ctl.locked = {"sx", "sy", "sz", "v"}
                      /\ objExists(nodes, ctl.parent)
                      /\ NodeOf(nodes, ctl.parent).parent = name \o <<"_","g","r","p">>
                      /\ objExists(nodes, name \o <<"_","g","r","p">>)
                      /\ NodeOf(nodes, name \o <<"_","g","r","p">>).parent = controller_grp

C6_Witness ==
    /\ lastOp = "finish_rig"
    /\ slider_value = 2
    /\ Cardinality(OfType("circle")) = 12

\* C7: when the U computed for the right corner is smaller than the U
\* computed for the left corner, Confirm records the direction as
\* counter-clockwise and exchanges the two values (right takes the value
\* computed for left, left the value computed for right); otherwise both
\* computed values are kept.
C7_CornersExchanged ==
    Confirmed =>
       IF RatLess(lookups[1].u, lookups[2].u)
         THEN /\ direction_counter_clockwise
              /\ uValue_right_corner = lookups[2].u
              /\ uValue_left_corner = lookups[1].u
         ELSE /\ ~direction_counter_clockwise
              /\ uValue_right_corner = lookups[1].u
              /\ uValue_left_corner = lookups[2].u

Visible(ref) == NodeOf(nodes, ref).v

\* C8: from a completed Confirm until Finish the deformer group and the
\* group of binding joints are hidden; a completed Finish leaves the
\* binding joints visible, the control joints hidden and the deformer
\* group still hidden; in no state a slider change has led to is the
\* visibility of the deformer group or of the binding joints another.
C8_VisibilityFollowsWorkflow ==
    /\ (Confirmed /\ ~Finished) => (~Visible(deformer_grp) /\ ~Visible(binding_joint_grp))
    /\ Finished => (~Visible(deformer_grp) /\ Visible(binding_joint_grp))
    /\ lastOp = "finish_rig" => ~Visible(control_joint_grp)

C8_Witness ==
    /\ Finished
    /\ lastOp = "segment_joints"
    /\ Visible(binding_joint_grp)
    /\ ~Visible(deformer_grp)

Count(seq, x) == Cardinality({k \in DOMAIN seq : seq[k] = x})

\* C9: get_lofted_surface reverses the lofted surface exactly when the dot
\* product of the sampled normal with (0,0,1) is negative: once for
\* dot < 0, not at all for dot >= 0, 0 included.
C9_ReversedIffNegativeDot ==
    Confirmed =>
       Count(NodeOf(nodes, lofted_surface).ops, "reverseSurface")
          = IF host.dot < 0 THEN 1 ELSE 0

C9_Witness ==
    /\ Confirmed
    /\ host.dot = 0
    /\ Count(NodeOf(nodes, lofted_surface).ops, "reverseSurface") = 0

Step(op, arg) == [op |-> op, arg |-> arg]
IsNamedStep(c) == c.op # "parent"

\* C10: every Confirm makes the same steps in the same order: deformer
\* group, curve 1, curve 2, edge count, reference size, seam of curve 1,
\* seam of curve 2, loft, follicle group, group of binding joints, the
\* follicle/joint pairs, the hiding of both groups, bounding box, right and
\* then left corner lookup, main joints R, L, U, D.  The host's answers
\* decide only the two reversals of the surface and the exchange of left
\* and right; the reference size is measured before a seam is moved and
\* the main joints are made after the direction is determined.
C10_ConfirmIsFixedSequence ==
    Confirmed =>
       /\ SelectSeq(calls, IsNamedStep) =
            <<Step("group", deformer_grp),
              Step("get_edge_curve", curve_1),
              Step("get_edge_curve", curve_2),
              Step("get_edge_count", <<>>),
              Step("get_reference_size", curve_1),
              Step("move_Seam", curve_1),
              Step("move_Seam", curve_2),
              Step("loft", lofted_surface)>>
            \o (IF host.spans[1] < host.spans[2]
                  THEN <<Step("reverseSurfaceNormals", lofted_surface)>> ELSE <<>>)
            \o (IF host.dot < 0
                  THEN <<Step("reverseSurface", lofted_surface)>> ELSE <<>>)
            \o <<Step("group", follicle_grp),
                 Step("group", binding_joint_grp),
                 Step("create_surface_ribbons", lofted_surface),
                 Step("setVisible", deformer_grp),
                 Step("setVisible", binding_joint_grp),
                 Step("exactWorldBoundingBox", lofted_surface),
                 Step("get_corner_point", lofted_surface),
                 Step("get_corner_point", lofted_surface),
                 Step("set_control_joints", right_corner_joint),
                 Step("set_control_joints", left_corner_joint),
                 Step("set_control_joints", upper_corner_joint),
                 Step("set_control_joints", lower_corner_joint)>>
       /\ Len(lookups) = 2
       /\ lookups[1].x = host.bbx[1] /\ lookups[1].u = host.uR
       /\ lookups[2].x = host.bbx[4] /\ lookups[2].u = host.uL
       /\ direction_counter_clockwise = RatLess(host.uR, host.uL)

C10_Witness ==
    /\ Confirmed
    /\ host.spans[1] < host.spans[2]
    /\ host.dot < 0
    /\ Len(calls) = 26
    /\ direction_counter_clockwise

\* ------------------------------------------------------------------- C11
\* What a capture button owns: its stored value and its text field.
FirstButtonOwns == <<first_edge_Loop, first_edge_loop_text>>
SecondButtonOwns == <<second_edge_Loop, second_edge_loop_text>>
VertexButtonOwns == <<vertex_on_edge, vertex_text>>

FirstButtonContract ==
    /\ selection # <<>> =>
          /\ first_edge_Loop' = selection
          /\ first_edge_loop_text' = JoinNames(selection)
          /\ selection' = <<>>
          /\ UNCHANGED printed
    /\ selection = <<>> =>
          /\ printed' = PleaseSelectEdgeLoop
          /\ UNCHANGED <<FirstButtonOwns, selection>>
    /\ UNCHANGED <<SecondButtonOwns, VertexButtonOwns>>

SecondButtonContract ==
    /\ selection # <<>> =>
          /\ second_edge_Loop' = selection
          /\ second_edge_loop_text' = JoinNames(selection)
          /\ selection' = <<>>
          /\ UNCHANGED printed
    /\ selection = <<>> =>
          /\ printed' = PleaseSelectEdgeLoop
          /\ UNCHANGED <<SecondButtonOwns, selection>>
    /\ UNCHANGED <<FirstButtonOwns, VertexButtonOwns>>

VertexButtonContract ==
    /\ selection # <<>> =>
          /\ vertex_on_edge' = Head(selection)
          /\ vertex_text' = Head(selection)
          /\ selection' = <<>>
          /\ UNCHANGED printed
    /\ selection = <<>> =>
          /\ printed' = PleaseSelectVertex
          /\ UNCHANGED <<VertexButtonOwns, selection>>
    /\ UNCHANGED <<FirstButtonOwns, SecondButtonOwns>>

\* C11: each capture button, pressed with a non-empty selection, stores it
\* (the whole flattened selection for an edge loop, the first element for
\* the vertex), shows it in its text field and clears the selection;
\* pressed with nothing selected it prints its message and leaves its
\* value, its text field and the selection as they are; and it never
\* changes what another capture button owns.
C11_CaptureButtons ==
    [][ /\ get_first_edge_loop => FirstButtonContract
        /\ get_2nd_edge_loop => SecondButtonContract
        /\ get_vertex_on_edge_loop => VertexButtonContract ]_vars

\* All three buttons have stored a selection, the vertex button from a
\* selection of two vertices, and a button was pressed with nothing selected.
C11_Witness ==
    /\ first_edge_Loop = EdgeLoop(2)
    /\ first_edge_loop_text = Edge(1) \o Edge(2)
    /\ second_edge_Loop = EdgeLoop(1)
    /\ vertex_on_edge = Vtx(2)
    /\ vertex_text = Vtx(2)
    /\ selection = <<>>
    /\ printed = PleaseSelectVertex

\* ------------------------------------------------------------------- C12
\* C12: the corner lookups of Confirm are made at the middle Y of the
\* surface's bounding box, (ymin + ymax) / 2, which lies within
\* [ymin, ymax]; the right corner is asked at (xmin, ymid, zmin) and the
\* left corner at (xmax, ymid, zmin).
C12_CornerLookupAtMiddleY ==
    Confirmed =>
        LET xmin == host.bbx[1]
            ymin == host.bbx[2]
            zmin == host.bbx[3]
            xmax == host.bbx[4]
            ymax == host.bbx[5]
            ymid == Rat(ymin + ymax, 2)
        IN /\ Len(lookups) = 2
           /\ ~RatLess(ymid, Int2Rat(ymin))
           /\ ~RatLess(Int2Rat(ymax), ymid)
           /\ lookups[1].x = xmin /\ lookups[1].y = ymid /\ lookups[1].z = zmin
           /\ lookups[2].x = xmax /\ lookups[2].y = ymid /\ lookups[2].z = zmin

\* A Confirm on a box whose Y range starts below zero and has a middle
\* that is no whole number.
C12_Witness ==
    /\ lastOp = "user_input"
    /\ host.bbx[2] < 0
    /\ host.bbx[2] < host.bbx[5]
    /\ (host.bbx[2] + host.bbx[5]) % 2 = 1
    /\ Len(lookups) = 2

\* ------------------------------------------------------------------- C13
FollicleNodes == {n \in nodes : n.type = "follicle"}
ParameterU(i) == NodeOf(nodes, FollicleOf(i + 1)).u
ParameterV(i) == NodeOf(nodes, FollicleOf(i + 1)).pv

\* C13: create_surface_ribbons makes u_count follicles and places follicle
\* i (i = 0..u_count-1) at parameterU = i / u_count and parameterV = 1/2:
\* the U values start at 0, are evenly spaced, pairwise distinct and lie
\* in [0, 1); for u_count = 0 the call completes and creates nothing.
C13_FolliclesEvenlySpaced ==
    lastOp = "create_surface_ribbons" =>
        LET u_count == Len(first_edge_Loop)
            I == 0..(u_count - 1)
        IN /\ Cardinality(FollicleNodes) = u_count
           /\ \A i \in I :
                 /\ objExists(nodes, FollicleOf(i + 1))
                 /\ ParameterU(i) = Rat(i, u_count)
                 /\ ParameterV(i) = <<1, 2>>
                 /\ ~RatLess(ParameterU(i), <<0, 1>>)
                 /\ RatLess(ParameterU(i), <<1, 1>>)
           /\ u_count >= 1 => ParameterU(0) = <<0, 1>>
           /\ \A i \in I : i + 1 \in I =>
                 RatSub(ParameterU(i + 1), ParameterU(i)) = Rat(1, u_count)
           /\ \A i, j \in I : i # j => ParameterU(i) # ParameterU(j)
           /\ u_count = 0 =>
                 /\ Cardinality(nodes) = 3
                 /\ constraints = {}
                 /\ Len(calls) = 1

\* The function has run for an edge count of three.
C13_Witness ==
    /\ lastOp = "create_surface_ribbons"
    /\ Len(first_edge_Loop) = 3
    /\ Cardinality(FollicleNodes) = 3
    /\ ParameterU(2) = <<2, 3>>

====
